---- MODULE Spec2Model ----
(***************************************************************************)
(* The pet-store service (pet_store.py, one instance per store, each with  *)
(* its own database and images directory) and the pet-order service        *)
(* (pet_order.py), which brokers purchases over the two stores.             *)
(*                                                                         *)
(* Modelling decisions:                                                    *)
(*  - a MongoDB collection is a sequence of documents in insertion order;  *)
(*    find_one / update_one / delete_one act on the first matching         *)
(*    document, $push appends, $pull removes every matching element;       *)
(*  - single document-store and file-system operations succeed; outbound   *)
(*    HTTP calls (taxonomy API, image download, order -> store) may fail;  *)
(*  - a handler is a step function on (store, frame): one step is one      *)
(*    document-store operation or outbound call together with the local    *)
(*    computation around it.  Run executes a handler to its response in    *)
(*    one go (requests served one after the other); the concurrent         *)
(*    specification interleaves the steps of several frames;               *)
(*  - str.lower() is Lower, str(int) is ToString, uuid4() is a fresh name; *)
(*  - of a PetType only id, type and the embedded name list are kept       *)
(*    (family, genus, attributes, lifespan are copied from the taxonomy    *)
(*    answer and never read by a write path); of a Pet the birthdate is    *)
(*    left out for the same reason.                                        *)
(***************************************************************************)
EXTENDS Integers, Sequences, FiniteSets, TLC

VARIABLES
  stores,        \* per store: pet_types, pets, the counter, the images directory
  transactions,  \* the order service's transactions collection
  purchase_seq,  \* the order service's purchase_id counter (0: no document yet)
  req,           \* per client of the order service: the frame of its create_purchase,
                 \* and the response once it has returned
  thr,           \* per client connection of a store: the frame of the handler serving it
  ev,            \* the response the last step gave, if any: the handler, the status,
                 \* the outbound calls it made
  writes         \* history: write requests sent to the stores by clients

vars == <<stores, transactions, purchase_seq, req, thr, ev, writes>>

(* ------------------------------ bounds --------------------------------- *)
\* write requests (POST/PUT/DELETE) sent to one store, starting empty
MaxWrites == 4
\* write requests sent to the stores by clients while purchases are served
MaxClientWrites == 1
\* write requests sent to the stores by clients, served several at a time
MaxConcWrites == 2

Stores == {1, 2}
Names == {"a", "A", "b"}
TypeNames == {"dog"}
TypeIds == {"1", "2"}
NONE == "<None>"
Urls == {"u1", "u2"}
JSON == "application/json"
ContentTypes == {JSON, "text/plain"}
NA == "NA"

(* ------------------------------ strings -------------------------------- *)
\* str.lower()
Lower(s) ==
  CASE s = "A" -> "a"
    [] s = "B" -> "b"
    [] s = "Dog" -> "dog"
    [] s = "Cat" -> "cat"
    [] OTHER -> s

\* the spelling under which the taxonomy API lists an animal
NinjaName(t) ==
  CASE Lower(t) = "dog" -> "Dog"
    [] Lower(t) = "cat" -> "Cat"
    [] OTHER -> t

(* ------------------------- document store ------------------------------ *)
\* index of the first document satisfying T, 0 when there is none
FindIdx(coll, T(_)) ==
  IF \E i \in DOMAIN coll : T(coll[i])
    THEN CHOOSE i \in DOMAIN coll : T(coll[i]) /\ \A j \in 1..(i - 1) : ~T(coll[j])
    ELSE 0

RemoveAt(coll, i) ==
  [j \in 1..(Len(coll) - 1) |-> IF j < i THEN coll[j] ELSE coll[j + 1]]

\* delete_one(filter)
DeleteOne(coll, T(_)) ==
  LET i == FindIdx(coll, T) IN IF i = 0 THEN coll ELSE RemoveAt(coll, i)

\* the list without the elements satisfying T ($pull)
Pull(list, T(_)) == SelectSeq(list, LAMBDA e : ~T(e))

\* the documents satisfying T, in collection order (find)
Filter(coll, T(_)) == SelectSeq(coll, T)

Map(coll, F(_)) == [i \in DOMAIN coll |-> F(coll[i])]

(* ------------------------------ pet store ------------------------------ *)
EmptyStore ==
  [pet_types |-> <<>>, pets |-> <<>>, seq |-> 0, images |-> {}, uuid |-> 0]

Err(msg) == [error |-> msg]

Call(to, store, arg, out) == [to |-> to, store |-> store, arg |-> arg, out |-> out]

\* the frame of a handler that was just entered; env: what the outside world
\* will answer to the calls the handler makes
Frame(h, id, name, ct, data, env) ==
  [h |-> h, pc |-> "start", id |-> id, name |-> name, ct |-> ct, data |-> data,
   env |-> env, ptype |-> <<>>, pet |-> <<>>, new_id |-> NONE,
   picture |-> NA, picture_url |-> NONE, status |-> 0, body |-> "", calls |-> <<>>]

\* the handler returns
Done(st, f, status, body) ==
  [st |-> st, f |-> [f EXCEPT !.pc = "done", !.status = status, !.body = body]]

Goes(st, f, pc) == [st |-> st, f |-> [f EXCEPT !.pc = pc]]

clean_pet(p) == [name |-> p.name, picture |-> p.picture]

clean_pet_type(pt) == [id |-> pt.id, type |-> pt.type, pets |-> pt.pets]

\* find_one({"id": pet_type_id}) on pet_types
TypeIdx(st, id) == FindIdx(st.pet_types, LAMBDA pt : pt.id = id)

\* find_one({"pet_type_id": id, "name_lower": name.lower()}) on pets
PetIdx(st, id, name) ==
  FindIdx(st.pets, LAMBDA p : p.pet_type_id = id /\ p.name_lower = Lower(name))

get_next_pet_type_id_from_count(st) ==
  [st |-> [st EXCEPT !.seq = @ + 1], id |-> ToString(Len(st.pet_types) + 1)]

\* find_one_and_update($inc seq, upsert, return the new document); str(seq)
get_next_pet_type_id(st) ==
  [st |-> [st EXCEPT !.seq = @ + 1], id |-> ToString(st.seq + 1)]

\* uuid4() plus the extension: a name no earlier download got
FreshFile(st) == "f" \o ToString(st.uuid + 1)

\* download_image: ok says whether requests.get answered 200
download_image(st, url, ok) ==
  IF ok
    THEN [st |-> [st EXCEPT !.images = @ \cup {FreshFile(st)}, !.uuid = @ + 1],
          fname |-> FreshFile(st)]
    ELSE [st |-> st, fname |-> NONE]

remove_image_file_never(st, filename) == st

remove_image_file(st, filename) ==
  IF filename = NONE \/ filename = NA THEN st
  ELSE [st EXCEPT !.images = @ \ {filename}]

\* dict.get(key, default)
\* a call that answered with a list of pets: got holds their names
Lookup(store, id, out, got) ==
  [to |-> "pets", store |-> store, arg |-> <<id>>, out |-> out, got |-> got]

Get(data, key, default) == IF key \in DOMAIN data THEN data[key] ELSE default

NinjaOutcomes ==
  {"200match", "200nomatch", "200empty", "non200", "SSLError", "exception"}

\* the taxonomy API call of add_pet_type: r1 is the outcome of the first
\* requests.get, r2 of the second one, made only after an SSLError;
\* [calls: the attempts made, out: the outcome the handler goes on with]
NinjaCallRetryAll(r1, r2) ==
  IF r1 \in {"SSLError", "exception", "non200"}
    THEN [calls |-> <<Call("ninja", 0, <<>>, r1), Call("ninja", 0, <<>>, r2)>>, out |-> r2]
    ELSE [calls |-> <<Call("ninja", 0, <<>>, r1)>>, out |-> r1]

NinjaCall(r1, r2) ==
  IF r1 = "SSLError"
    THEN [calls |-> <<Call("ninja", 0, <<>>, r1), Call("ninja", 0, <<>>, r2)>>, out |-> r2]
    ELSE [calls |-> <<Call("ninja", 0, <<>>, r1)>>, out |-> r1]

\* POST /pet-types
add_pet_type(st, f) ==
  CASE f.pc = "start" ->
         IF f.ct # JSON THEN Done(st, f, 415, Err("Expected application/json media type"))
         ELSE IF DOMAIN f.data = {} \/ "type" \notin DOMAIN f.data
                   \/ Cardinality(DOMAIN f.data) # 1
           THEN Done(st, f, 400, Err("Malformed data"))
         ELSE IF FindIdx(st.pet_types, LAMBDA pt : Lower(pt.type) = Lower(f.data.type)) # 0
           THEN Done(st, f, 400, Err("Pet type already exists"))
         ELSE Goes(st, f, "requests_get")
    [] f.pc = "requests_get" ->
         LET api == NinjaCall(f.env.r1, f.env.r2)
             f1 == [f EXCEPT !.calls = api.calls]
         IN IF api.out \in {"SSLError", "exception"}
              THEN Done(st, f1, 500, Err("Server error"))
            ELSE IF api.out = "non200"
              THEN Done(st, f1, 500, [server_error |-> "API response code"])
            ELSE IF api.out \in {"200empty", "200nomatch"}
              THEN Done(st, f1, 400, Err("Pet type not found"))
            ELSE Goes(st, f1, "get_next_pet_type_id")
    [] f.pc = "get_next_pet_type_id" ->
         LET nx == get_next_pet_type_id(st)
         IN Goes(nx.st, [f EXCEPT !.new_id = nx.id], "insert_one")
    [] f.pc = "insert_one" ->
         LET new_ptype == [id |-> f.new_id, type |-> NinjaName(f.data.type), pets |-> <<>>]
         IN Done([st EXCEPT !.pet_types = Append(@, new_ptype)], f,
                 201, clean_pet_type(new_ptype))

\* GET /pet-types (no query parameters)
get_pet_types(st, f) == Done(st, f, 200, Map(st.pet_types, clean_pet_type))

\* GET /pet-types/<id>
get_pet_type_by_id(st, f) ==
  LET i == TypeIdx(st, f.id) IN
  IF i = 0 THEN Done(st, f, 404, Err("Not found"))
  ELSE Done(st, f, 200, clean_pet_type(st.pet_types[i]))

\* DELETE /pet-types/<id>
delete_pet_type(st, f) ==
  CASE f.pc = "start" ->
         LET i == TypeIdx(st, f.id) IN
         IF i = 0 THEN Done(st, f, 404, Err("Not found"))
         ELSE IF st.pet_types[i].pets # <<>> THEN Done(st, f, 400, Err("Malformed data"))
         ELSE Goes(st, f, "delete_one")
    [] f.pc = "delete_one" ->
         Done([st EXCEPT !.pet_types = DeleteOne(@, LAMBDA pt : pt.id = f.id)], f, 204, "")

\* update_one({"id": id}, {"$push": {"pets": name}})
PushName(st, id, name) ==
  LET i == TypeIdx(st, id) IN
  IF i = 0 THEN st ELSE [st EXCEPT !.pet_types[i].pets = Append(@, name)]

\* update_one({"id": id}, {"$pull": {"pets": <T>}})
PullNames(st, id, T(_)) ==
  LET i == TypeIdx(st, id) IN
  IF i = 0 THEN st ELSE [st EXCEPT !.pet_types[i].pets = Pull(@, T)]

\* POST /pet-types/<id>/pets; env.dl: the image download answers 200
add_pet(st, f) ==
  CASE f.pc = "start" ->
         LET i == TypeIdx(st, f.id) IN
         IF i = 0 THEN Done(st, f, 404, Err("Not found"))
         ELSE IF f.ct # JSON
           THEN Done(st, f, 415, Err("Expected application/json media type"))
         ELSE IF DOMAIN f.data = {} \/ "name" \notin DOMAIN f.data
           THEN Done(st, f, 400, Err("Malformed data"))
         ELSE
           LET ptype == st.pet_types[i] IN
           IF \E k \in DOMAIN ptype.pets : Lower(ptype.pets[k]) = Lower(f.data.name)
             THEN Done(st, f, 400, Err("Malformed data"))
           ELSE LET f1 == [f EXCEPT !.picture_url = Get(f.data, "picture_url", NONE)]
                IN Goes(st, f1, IF f1.picture_url # NONE THEN "download_image"
                                ELSE "insert_one")
    [] f.pc = "download_image" ->
         LET d == download_image(st, f.picture_url, f.env.dl)
         IN Goes(d.st, [f EXCEPT !.picture = IF d.fname # NONE THEN d.fname ELSE NA,
                                 !.calls = <<Call("image", 0, <<f.picture_url>>, d.fname)>>],
                 "insert_one")
    [] f.pc = "insert_one" ->
         LET pet_obj == [pet_type_id |-> f.id, name |-> f.data.name,
                         name_lower |-> Lower(f.data.name), picture |-> f.picture,
                         picture_url |-> f.picture_url]
         IN Goes([st EXCEPT !.pets = Append(@, pet_obj)], [f EXCEPT !.pet = pet_obj],
                 "update_one")
    [] f.pc = "update_one" ->
         Done(PushName(st, f.id, f.data.name), f, 201, clean_pet(f.pet))

\* GET /pet-types/<id>/pets (no query parameters)
get_pets(st, f) ==
  IF TypeIdx(st, f.id) = 0 THEN Done(st, f, 404, Err("Not found"))
  ELSE Done(st, f, 200,
            Map(Filter(st.pets, LAMBDA p : p.pet_type_id = f.id), clean_pet))

get_pet_by_name_no_404(st, f) ==
  LET k == PetIdx(st, f.id, f.name) IN
  IF k = 0 THEN Done(st, f, 200, <<>>) ELSE Done(st, f, 200, clean_pet(st.pets[k]))

\* GET /pet-types/<id>/pets/<name>
get_pet_by_name(st, f) ==
  IF TypeIdx(st, f.id) = 0 THEN Done(st, f, 404, Err("Not found"))
  ELSE LET k == PetIdx(st, f.id, f.name) IN
    IF k = 0 THEN Done(st, f, 404, Err("Not found"))
    ELSE Done(st, f, 200, clean_pet(st.pets[k]))

\* PUT /pet-types/<id>/pets/<name>; env.dl: the image download answers 200
update_pet(st, f) ==
  CASE f.pc = "start" ->
         IF TypeIdx(st, f.id) = 0 THEN Done(st, f, 404, Err("Not found"))
         ELSE IF f.ct # JSON
           THEN Done(st, f, 415, Err("Expected application/json media type"))
         ELSE IF DOMAIN f.data = {} \/ "name" \notin DOMAIN f.data
           THEN Done(st, f, 400, Err("Malformed data"))
         ELSE Goes(st, f, "find_one")
    [] f.pc = "find_one" ->
         LET k == PetIdx(st, f.id, f.name) IN
         IF k = 0 THEN Done(st, f, 404, Err("Not found"))
         ELSE
           LET pet == st.pets[k]
               new_url == Get(f.data, "picture_url", NONE)
               f1 == [f EXCEPT !.pet = pet, !.picture = pet.picture]
           IN IF new_url = NONE
                THEN Goes(st, [f1 EXCEPT !.picture_url = NONE],
                          IF pet.picture # NA THEN "remove_image_file" ELSE "update_one")
              ELSE IF new_url = pet.picture_url
                THEN Goes(st, [f1 EXCEPT !.picture_url = pet.picture_url], "update_one")
              ELSE Goes(st, [f1 EXCEPT !.picture_url = new_url],
                        IF pet.picture # NA THEN "remove_image_file" ELSE "download_image")
    [] f.pc = "remove_image_file" ->
         Goes(remove_image_file(st, f.pet.picture), [f EXCEPT !.picture = NA],
              IF f.picture_url = NONE THEN "update_one" ELSE "download_image")
    [] f.pc = "download_image" ->
         LET d == download_image(st, f.picture_url, f.env.dl)
         IN Goes(d.st, [f EXCEPT !.picture = IF d.fname # NONE THEN d.fname ELSE NA,
                                 !.calls = <<Call("image", 0, <<f.picture_url>>, d.fname)>>],
                 "update_one")
    [] f.pc = "update_one" ->
         LET k == PetIdx(st, f.id, f.name)
             st1 == IF k = 0 THEN st
                    ELSE [st EXCEPT !.pets[k] =
                            [@ EXCEPT !.name = f.data.name,
                                      !.name_lower = Lower(f.data.name),
                                      !.picture = f.picture,
                                      !.picture_url = f.picture_url]]
         IN Goes(st1, f, IF Lower(f.data.name) # Lower(f.name) THEN "pull" ELSE "find_updated")
    [] f.pc = "pull" ->
         Goes(PullNames(st, f.id, LAMBDA e : Lower(e) = Lower(f.name)), f, "push")
    [] f.pc = "push" ->
         Goes(PushName(st, f.id, f.data.name), f, "find_updated")
    [] f.pc = "find_updated" ->
         LET k == PetIdx(st, f.id, f.data.name) IN
         IF k = 0 THEN Done(st, f, 500, Err("Server error"))
         ELSE Done(st, f, 200, clean_pet(st.pets[k]))

\* DELETE /pet-types/<id>/pets/<name>
delete_pet(st, f) ==
  CASE f.pc = "start" ->
         IF TypeIdx(st, f.id) = 0 THEN Done(st, f, 404, Err("Not found"))
         ELSE Goes(st, f, "find_one")
    [] f.pc = "find_one" ->
         LET k == PetIdx(st, f.id, f.name) IN
         IF k = 0 THEN Done(st, f, 404, Err("Not found"))
         ELSE Goes(st, [f EXCEPT !.pet = st.pets[k]], "remove_image_file")
    [] f.pc = "remove_image_file" ->
         Goes(remove_image_file(st, f.pet.picture), f, "delete_one")
    [] f.pc = "delete_one" ->
         Goes([st EXCEPT !.pets = DeleteOne(@, LAMBDA p : p.pet_type_id = f.id
                                                 /\ p.name_lower = Lower(f.name))],
              f, "update_one")
    [] f.pc = "update_one" ->
         Done(PullNames(st, f.id, LAMBDA e : e = f.pet.name), f, 204, "")

\* GET /pictures/<file_name>
get_picture(st, f) ==
  IF f.name \notin st.images THEN Done(st, f, 404, Err("Not found"))
  ELSE Done(st, f, 200, f.name)

\* one step of the handler the frame belongs to
Handle(st, f) ==
  CASE f.h = "add_pet_type" -> add_pet_type(st, f)
    [] f.h = "get_pet_types" -> get_pet_types(st, f)
    [] f.h = "get_pet_type_by_id" -> get_pet_type_by_id(st, f)
    [] f.h = "delete_pet_type" -> delete_pet_type(st, f)
    [] f.h = "add_pet" -> add_pet(st, f)
    [] f.h = "get_pets" -> get_pets(st, f)
    [] f.h = "get_pet_by_name" -> get_pet_by_name(st, f)
    [] f.h = "update_pet" -> update_pet(st, f)
    [] f.h = "delete_pet" -> delete_pet(st, f)
    [] f.h = "get_picture" -> get_picture(st, f)

\* the handler from its entry to its response, no other request in between
RECURSIVE Run(_, _)
Run(st, f) ==
  IF f.pc = "done" THEN [st |-> st, f |-> f]
  ELSE LET r == Handle(st, f) IN Run(r.st, r.f)

NoEnv == [dl |-> TRUE, r1 |-> "200match", r2 |-> "200match"]

\* a request to a store
Request(h, id, name) == Frame(h, id, name, JSON, <<>>, NoEnv)

(* ------------------------------ pet order ------------------------------ *)
OWNER_PASSWORD == "LovesPetsL2M3n4"

Procs == {1, 2}

\* the answer of an outbound call: of the store's handler, or none (the call raised)
Answer(status, body) == [status |-> status, body |-> body]

Unreachable == Answer(0, Err("unreachable"))

\* find_one_and_update($inc seq, upsert, return the new document); str(seq)
get_next_purchase_id(seq) == [seq |-> seq + 1, id |-> ToString(seq + 1)]

\* find_pet_type_id, given the answer of GET <store>/pet-types
find_pet_type_id(resp, pet_type_name) ==
  IF resp.status # 200 THEN NONE
  ELSE LET i == FindIdx(resp.body, LAMBDA pt : Lower(pt.type) = Lower(pet_type_name))
       IN IF i = 0 THEN NONE ELSE resp.body[i].id

\* get_pets_of_type, given the answer of GET <store>/pet-types/<id>/pets
get_pets_of_type(resp) == IF resp.status # 200 THEN <<>> ELSE resp.body

delete_pet_ok_only_200(resp) == resp.status = 200

\* delete_pet of the order service, given the answer of the DELETE call
delete_pet_ok(resp) == resp.status = 204

IdleReq == [pc |-> "idle", status |-> 0]

\* create_purchase, the checks made before any store is asked:
\* the status answered, 0 when the request goes on
ValidatePurchase(ct, data) ==
  IF ct # JSON THEN 415
  ELSE IF DOMAIN data = {} THEN 400
  ELSE IF "purchaser" \notin DOMAIN data \/ "pet_type" \notin DOMAIN data THEN 400
  ELSE IF ~(DOMAIN data \subseteq {"purchaser", "pet_type", "store", "pet_name"}) THEN 400
  ELSE IF "store" \in DOMAIN data /\ data.store \notin {1, 2} THEN 400
  ELSE IF "pet_name" \in DOMAIN data /\ "store" \notin DOMAIN data THEN 400
  ELSE 0

StoresToCheckReversed(data) ==
  IF "store" \in DOMAIN data THEN <<data.store>> ELSE <<2, 1>>

\* find_available_pet, the stores to ask, in order
StoresToCheck(data) ==
  IF "store" \in DOMAIN data THEN <<data.store>> ELSE <<1, 2>>

TransactionRequestedStore(r) ==
  [purchaser |-> r.data.purchaser, pet_type |-> r.data.pet_type,
   store |-> Get(r.data, "store", 1), purchase_id |-> r.purchase_id]

\* the record create_purchase inserts into transactions
Transaction(r) ==
  [purchaser |-> r.data.purchaser, pet_type |-> r.data.pet_type,
   store |-> r.result[1], purchase_id |-> r.purchase_id]

\* the body create_purchase answers with 201
Purchase(r) ==
  [purchaser |-> r.data.purchaser, pet_type |-> r.data.pet_type,
   store |-> r.result[1], pet_name |-> r.result[3], purchase_id |-> r.purchase_id]

get_transactions_any_header(owner_pc, trs) ==
  IF owner_pc = NONE THEN Answer(401, Err("unauthorized")) ELSE Answer(200, trs)

\* GET /transactions (no query parameters); owner_pc: the OwnerPC header
get_transactions(owner_pc, trs) ==
  IF owner_pc # OWNER_PASSWORD THEN Answer(401, Err("unauthorized"))
  ELSE Answer(200, trs)

(* ------------------------------ requests ------------------------------- *)
AddTypeData == {[type |-> t] : t \in TypeNames} \cup {[name |-> "x"]}

PetData ==
  {[name |-> n] : n \in Names}
    \cup {[name |-> n, picture_url |-> u] : n \in Names, u \in Urls}
    \cup {[picture_url |-> "u1"]}

\* the bodies client p may post to /purchases
PurchaseData(p) ==
  LET who == <<"bob", "eve">>[p] IN
  {[purchaser |-> who, pet_type |-> "dog"]}
    \cup {[purchaser |-> who, pet_type |-> "dog", store |-> s] : s \in {1, 2, 3}}
    \cup {[purchaser |-> who, pet_type |-> "dog", store |-> s, pet_name |-> "A"] : s \in {1, 2}}
    \cup {[purchaser |-> who, pet_type |-> "dog", pet_name |-> "a"],
          [purchaser |-> who],
          [purchaser |-> who, pet_type |-> "dog", price |-> "1"]}

Headers == {NONE, "lovespetsl2m3n4", OWNER_PASSWORD}

FileNames == {"f1", "f2"}

\* the write requests clients send to a store, with what the outside world
\* answers to the calls they make
AddPetTypeRequests ==
  {Frame("add_pet_type", NONE, NONE, ct, data, [NoEnv EXCEPT !.r1 = r1, !.r2 = r2]) :
     ct \in ContentTypes, data \in AddTypeData, r1 \in NinjaOutcomes, r2 \in NinjaOutcomes}

PetRequests(h, names) ==
  {Frame(h, id, name, ct, data, [NoEnv EXCEPT !.dl = dl]) :
     id \in TypeIds, name \in names, ct \in ContentTypes, data \in PetData, dl \in BOOLEAN}

\* requests that differ only in an answer nobody asks for are one request
Relevant(f) ==
  /\ f.ct # JSON => f.data \in {[name |-> "x"], [picture_url |-> "u1"]}
  /\ (f.ct # JSON \/ "type" \notin DOMAIN f.data) => f.env.r1 = "200match"
  /\ f.env.r1 # "SSLError" => f.env.r2 = "200match"
  /\ "picture_url" \notin DOMAIN f.data => f.env.dl

WriteRequests ==
  {f \in AddPetTypeRequests \cup PetRequests("add_pet", {NONE})
           \cup PetRequests("update_pet", Names) : Relevant(f)}
    \cup {Request("delete_pet_type", id, NONE) : id \in TypeIds}
    \cup {Request("delete_pet", id, name) : id \in TypeIds, name \in Names}

ReadRequests ==
  {Request("get_pet_types", NONE, NONE)}
    \cup {Request(h, id, NONE) : h \in {"get_pet_type_by_id", "get_pets"}, id \in TypeIds}
    \cup {Request("get_pet_by_name", id, name) : id \in TypeIds, name \in Names}
    \cup {Request("get_picture", NONE, name) : name \in FileNames}

AllRequests == WriteRequests \cup ReadRequests

\* the requests clients send to the stores while the order service is at work
ClientRequests ==
  {f \in AllRequests :
     /\ f.ct = JSON
     /\ f.id \in {NONE, "1"}
     /\ f.name \in {NONE, "a", "f1"}
     /\ f.data \in {<<>>, [type |-> "dog"], [name |-> "b"], [name |-> "b", picture_url |-> "u1"]}
     /\ f.env.r2 \in {"200match", "exception"}}

(* ------------------------------- state --------------------------------- *)
\* arg and body are kept of the order service's responses only
Event(op, arg, status, body, calls) ==
  [op |-> op, arg |-> arg, status |-> status, body |-> body, calls |-> calls]

NoEvent == Event("", <<>>, 0, "", <<>>)

Threads == {1, 2}

IdleThread == [store |-> 0, f |-> [pc |-> "idle"]]

\* a store in which POST /pet-types ("dog") and then POST /pet-types/1/pets
\* for each of the names were served
RECURSIVE Stocked(_)
Stocked(names) ==
  IF names = <<>>
    THEN Run(EmptyStore, Frame("add_pet_type", NONE, NONE, JSON, [type |-> "dog"], NoEnv)).st
    ELSE Run(Stocked(SubSeq(names, 1, Len(names) - 1)),
             Frame("add_pet", "1", NONE, JSON, [name |-> names[Len(names)]], NoEnv)).st

Stock == {EmptyStore, Stocked(<<"a", "b">>)}

\* both stores empty
InitStore ==
  /\ stores = [s \in Stores |-> EmptyStore]
  /\ transactions = <<>>
  /\ purchase_seq = 0
  /\ req = [p \in Procs |-> IdleReq]
  /\ thr = [t \in Threads |-> IdleThread]
  /\ ev = NoEvent
  /\ writes = 0

\* the stores hold what earlier requests left in them
Init ==
  /\ stores \in [Stores -> Stock]
  /\ transactions = <<>>
  /\ purchase_seq = 0
  /\ req = [p \in Procs |-> IdleReq]
  /\ thr = [t \in Threads |-> IdleThread]
  /\ ev = NoEvent
  /\ writes = 0

(* ---------------- store requests served one after the other ------------ *)
\* a write request to store s out of R, handled from entry to response
StoreWrite(s, h, R) ==
  /\ \E f \in R :
       /\ f.h = h
       /\ LET r == Run(stores[s], f) IN
            /\ stores' = [stores EXCEPT ![s] = r.st]
            /\ ev' = Event(h, <<>>, r.f.status, "", r.f.calls)
  /\ writes' = writes + 1
  /\ UNCHANGED <<transactions, purchase_seq, req, thr>>

\* a GET request to store s out of R
StoreRead(s, h, R) ==
  /\ \E f \in R :
       /\ f.h = h
       /\ LET r == Run(stores[s], f) IN
            /\ stores' = [stores EXCEPT ![s] = r.st]
            /\ ev' = Event("GET", <<>>, r.f.status, "", <<>>)
  /\ UNCHANGED <<transactions, purchase_seq, req, thr, writes>>

AddPetType(s, R) == StoreWrite(s, "add_pet_type", R)
DeletePetType(s, R) == StoreWrite(s, "delete_pet_type", R)
AddPet(s, R) == StoreWrite(s, "add_pet", R)
UpdatePet(s, R) == StoreWrite(s, "update_pet", R)
DeletePet(s, R) == StoreWrite(s, "delete_pet", R)
GetPetTypes(s, R) == StoreRead(s, "get_pet_types", R)
GetPetTypeById(s, R) == StoreRead(s, "get_pet_type_by_id", R)
GetPets(s, R) == StoreRead(s, "get_pets", R)
GetPetByName(s, R) == StoreRead(s, "get_pet_by_name", R)
GetPicture(s, R) == StoreRead(s, "get_picture", R)

(* -------------------------- POST /purchases ---------------------------- *)
\* create_purchase returns: of the frame the response is kept
Reply(p, r, status, body) ==
  /\ req' = [req EXCEPT ![p] = [pc |-> "done", status |-> status, body |-> body]]
  /\ ev' = Event("create_purchase", r.data, status, body, r.log)

\* create_purchase goes on to its next call
Goto(p, r) ==
  /\ req' = [req EXCEPT ![p] = r]
  /\ ev' = NoEvent

NoPet == Err("No pet of this type is available")

\* find_available_pet after the store at the head of stores_to_check:
\* the next store, or the end of the loop
Continue(p, r) ==
  LET r1 == [r EXCEPT !.stores_to_check = Tail(@)] IN
  IF r1.stores_to_check # <<>> THEN Goto(p, [r1 EXCEPT !.pc = "find_pet_type_id"])
  ELSE IF "pet_name" \in DOMAIN r.data THEN Reply(p, r1, 400, NoPet)
  ELSE IF r1.available_pets # <<>>
    THEN \E c \in DOMAIN r1.available_pets :
           Goto(p, [r1 EXCEPT !.pc = "delete_pet", !.result = r1.available_pets[c]])
  ELSE Reply(p, r1, 400, NoPet)

\* the answer of store s to a request that reaches it
Ask(s, f) == LET r == Run(stores[s], f) IN Answer(r.f.status, r.f.body)

\* clients are interchangeable: client 2 posts after client 1 did;
\* D(p): the bodies client p may post
StartPurchase(p, D(_)) ==
  /\ req[p].pc = "idle"
  /\ \A q \in Procs : q < p => req[q].pc # "idle"
  /\ \E ct \in ContentTypes, data \in D(p) :
       /\ ct # JSON => data = [purchaser |-> <<"bob", "eve">>[p]]
       /\ LET v == ValidatePurchase(ct, data)
              r == [pc |-> "find_pet_type_id", ct |-> ct, data |-> data,
                    stores_to_check |-> StoresToCheck(data), available_pets |-> <<>>,
                    pet_type_id |-> NONE, result |-> <<>>, purchase_id |-> NONE,
                    log |-> <<>>, status |-> 0, call |-> <<>>]
          IN IF v = 415
               THEN Reply(p, r, 415, Err("Expected application/json media type"))
             ELSE IF v = 400 THEN Reply(p, r, 400, Err("Malformed data"))
             ELSE Goto(p, r)
  /\ UNCHANGED <<stores, transactions, purchase_seq, thr, writes>>

\* find_pet_type_id(store_url, pet_type_name): GET <store>/pet-types;
\* net: whether the store can be reached (FALSE: the call raises)
FindPetTypeId(p, net) ==
  /\ req[p].pc = "find_pet_type_id"
  /\ \E up \in net :
       LET r == req[p]
           s == Head(r.stores_to_check)
           resp == IF up THEN Ask(s, Request("get_pet_types", NONE, NONE)) ELSE Unreachable
           tid == find_pet_type_id(resp, r.data.pet_type)
           r1 == [r EXCEPT !.log = Append(@, Call("pet-types", s, <<>>, ToString(resp.status))),
                           !.pet_type_id = tid]
       IN IF tid = NONE THEN Continue(p, r1)
          ELSE Goto(p, [r1 EXCEPT !.pc = "get_pets_of_type"])
  /\ UNCHANGED <<stores, transactions, purchase_seq, thr, writes>>

\* get_pets_of_type(store_url, pet_type_id): GET <store>/pet-types/<id>/pets,
\* then the rest of the loop body of find_available_pet
GetPetsOfType(p, net) ==
  /\ req[p].pc = "get_pets_of_type"
  /\ \E up \in net :
       LET r == req[p]
           s == Head(r.stores_to_check)
           resp == IF up THEN Ask(s, Request("get_pets", r.pet_type_id, NONE))
                   ELSE Unreachable
           found == get_pets_of_type(resp)
           r1 == [r EXCEPT !.log = Append(@, Lookup(s, r.pet_type_id, ToString(resp.status),
                                                    Map(found, LAMBDA pet : pet.name)))]
       IN IF found = <<>> THEN Continue(p, r1)
          ELSE IF "pet_name" \in DOMAIN r.data
            THEN LET i == FindIdx(found, LAMBDA pet : Lower(pet.name) = Lower(r.data.pet_name))
                 IN IF i # 0
                      THEN Goto(p, [r1 EXCEPT !.pc = "delete_pet",
                                              !.result = <<s, r.pet_type_id, found[i].name>>])
                      ELSE Continue(p, r1)
          ELSE Continue(p, [r1 EXCEPT !.available_pets =
                              @ \o Map(found, LAMBDA pet : <<s, r.pet_type_id, pet.name>>)])
  /\ UNCHANGED <<stores, transactions, purchase_seq, thr, writes>>

\* create_purchase after the answer of the DELETE call
AfterDelete(p, r, resp) ==
  LET r1 == [r EXCEPT !.log = Append(@, Call("delete", r.result[1],
                                             <<r.result[2], r.result[3]>>,
                                             ToString(resp.status)))]
  IN IF delete_pet_ok(resp) THEN Goto(p, [r1 EXCEPT !.pc = "get_next_purchase_id"])
     ELSE Reply(p, r1, 400, NoPet)

\* delete_pet(store_url, pet_type_id, pet_name): DELETE at the chosen store,
\* which runs the store's delete_pet handler
DeleteChosenPet(p, net) ==
  /\ req[p].pc = "delete_pet"
  /\ \E up \in net :
       LET r == req[p]
           s == r.result[1]
           d == IF up THEN Run(stores[s], Request("delete_pet", r.result[2], r.result[3]))
                ELSE [st |-> stores[s], f |-> Unreachable]
       IN /\ stores' = [stores EXCEPT ![s] = d.st]
          /\ AfterDelete(p, r, Answer(d.f.status, d.f.body))
  /\ UNCHANGED <<transactions, purchase_seq, thr, writes>>

GetNextPurchaseId(p) ==
  /\ req[p].pc = "get_next_purchase_id"
  /\ LET r == req[p]
         nx == get_next_purchase_id(purchase_seq)
     IN /\ purchase_seq' = nx.seq
        /\ Goto(p, [r EXCEPT !.pc = "insert_one", !.purchase_id = nx.id,
                             !.log = Append(@, Call("purchase_id", 0, <<>>, nx.id))])
  /\ UNCHANGED <<stores, transactions, thr, writes>>

\* transactions_collection.insert_one(transaction); return purchase, 201
InsertTransaction(p) ==
  /\ req[p].pc = "insert_one"
  /\ LET r == req[p] IN
       /\ transactions' = Append(transactions, Transaction(r))
       /\ Reply(p, [r EXCEPT !.log = Append(@, Call("insert_one", 0, <<>>, r.purchase_id))],
                201, Purchase(r))
  /\ UNCHANGED <<stores, purchase_seq, thr, writes>>

GetTransactions ==
  /\ \E h \in Headers :
       LET r == get_transactions(h, transactions) IN
         ev' = Event("get_transactions", h, r.status, r.body, <<>>)
  /\ UNCHANGED <<stores, transactions, purchase_seq, req, thr, writes>>

(* --------------------------- specifications ---------------------------- *)
\* one store, serving one request after the other
NextStore ==
  \/ writes < MaxWrites /\ AddPetType(1, AllRequests)
  \/ writes < MaxWrites /\ DeletePetType(1, AllRequests)
  \/ writes < MaxWrites /\ AddPet(1, AllRequests)
  \/ writes < MaxWrites /\ UpdatePet(1, AllRequests)
  \/ writes < MaxWrites /\ DeletePet(1, AllRequests)
  \/ GetPetTypes(1, AllRequests)
  \/ GetPetTypeById(1, AllRequests)
  \/ GetPets(1, AllRequests)
  \/ GetPetByName(1, AllRequests)
  \/ GetPicture(1, AllRequests)

SpecStore == InitStore /\ [][NextStore]_vars

\* the order service works on no request
Free == \A q \in Procs : req[q].pc \in {"idle", "done"}

\* the order service and the two stores; each service serves one request
\* after the other, and the stores serve the write requests of their clients
\* between the calls of the order service. GET requests change nothing, so
\* that it is enough to send them while no purchase is in progress
Next ==
  \/ \E s \in Stores : writes < MaxClientWrites /\ AddPetType(s, ClientRequests)
  \/ \E s \in Stores : writes < MaxClientWrites /\ DeletePetType(s, ClientRequests)
  \/ \E s \in Stores : writes < MaxClientWrites /\ AddPet(s, ClientRequests)
  \/ \E s \in Stores : writes < MaxClientWrites /\ UpdatePet(s, ClientRequests)
  \/ \E s \in Stores : writes < MaxClientWrites /\ DeletePet(s, ClientRequests)
  \/ \E s \in Stores : Free /\ GetPetTypes(s, ClientRequests)
  \/ \E s \in Stores : Free /\ GetPetTypeById(s, ClientRequests)
  \/ \E s \in Stores : Free /\ GetPets(s, ClientRequests)
  \/ \E s \in Stores : Free /\ GetPetByName(s, ClientRequests)
  \/ \E s \in Stores : Free /\ GetPicture(s, ClientRequests)
  \/ \E p \in Procs : Free /\ StartPurchase(p, PurchaseData)
  \/ \E p \in Procs : FindPetTypeId(p, BOOLEAN)
  \/ \E p \in Procs : GetPetsOfType(p, BOOLEAN)
  \/ \E p \in Procs : DeleteChosenPet(p, BOOLEAN)
  \/ \E p \in Procs : GetNextPurchaseId(p)
  \/ \E p \in Procs : InsertTransaction(p)
  \/ Free /\ GetTransactions

Spec == Init /\ [][Next]_vars

(* ----------------------- requests served concurrently ------------------ *)
\* the requests clients send to a store that serves several at a time
ConcRequests ==
  {f \in ClientRequests :
     /\ f.h \in {"add_pet_type", "delete_pet_type", "add_pet", "delete_pet"}
     /\ f.env.r1 = "200match"
     /\ "picture_url" \notin DOMAIN f.data}

ConcPurchaseData(p) ==
  {d \in PurchaseData(p) : DOMAIN d \in {{"purchaser", "pet_type"},
                                         {"purchaser", "pet_type", "store", "pet_name"}}}

StockConc == {EmptyStore, Stocked(<<>>), Stocked(<<"a">>)}

InitConc ==
  /\ stores \in {[s \in Stores |-> IF s = 1 THEN st ELSE Stocked(<<"a">>)] : st \in StockConc}
  /\ transactions = <<>>
  /\ purchase_seq = 0
  /\ req = [p \in Procs |-> IdleReq]
  /\ thr = [t \in Threads |-> IdleThread]
  /\ ev = NoEvent
  /\ writes = 0

\* a write request reaches store s: a thread of the store enters the handler
\* (threads are interchangeable: thread 2 is taken while thread 1 is busy)
Enter(t, s) ==
  /\ writes < MaxConcWrites
  /\ thr[t].f.pc = "idle"
  /\ \A u \in Threads : u < t => thr[u].f.pc # "idle"
  /\ \E f \in ConcRequests : thr' = [thr EXCEPT ![t] = [store |-> s, f |-> f]]
  /\ writes' = writes + 1
  /\ ev' = NoEvent
  /\ UNCHANGED <<stores, transactions, purchase_seq, req>>

\* the next step of the handler thread t is in; its response ends it
StoreStep(t, h) ==
  /\ thr[t].f.pc # "idle"
  /\ thr[t].f.h = h
  /\ LET s == thr[t].store
         r == Handle(stores[s], thr[t].f)
     IN /\ stores' = [stores EXCEPT ![s] = r.st]
        /\ IF r.f.pc = "done"
             THEN /\ thr' = [thr EXCEPT ![t] = IdleThread]
                  /\ ev' = Event(h, <<>>, r.f.status, "", r.f.calls)
             ELSE /\ thr' = [thr EXCEPT ![t].f = r.f]
                  /\ ev' = NoEvent
  /\ UNCHANGED <<transactions, purchase_seq, req, writes>>

AddPetTypeStep(t) == StoreStep(t, "add_pet_type")
DeletePetTypeStep(t) == StoreStep(t, "delete_pet_type")
AddPetStep(t) == StoreStep(t, "add_pet")
DeletePetStep(t) == StoreStep(t, "delete_pet")

\* the order service sends its DELETE: the store enters delete_pet for it
SendDelete(p, net) ==
  /\ req[p].pc = "delete_pet"
  /\ \E up \in net :
       LET r == req[p] IN
       IF up
         THEN Goto(p, [r EXCEPT !.pc = "deleting",
                                !.call = Request("delete_pet", r.result[2], r.result[3])])
         ELSE AfterDelete(p, r, Unreachable)
  /\ UNCHANGED <<stores, transactions, purchase_seq, thr, writes>>

\* the next step of the store's delete_pet serving the order service
DeleteStep(p) ==
  /\ req[p].pc = "deleting"
  /\ LET r == req[p]
         s == r.result[1]
         d == Handle(stores[s], r.call)
     IN /\ stores' = [stores EXCEPT ![s] = d.st]
        /\ IF d.f.pc = "done" THEN AfterDelete(p, r, Answer(d.f.status, d.f.body))
           ELSE Goto(p, [r EXCEPT !.call = d.f])
  /\ UNCHANGED <<transactions, purchase_seq, thr, writes>>

\* requests in service
Busy ==
  Cardinality({t \in Threads : thr[t].f.pc # "idle"})
    + Cardinality({p \in Procs : req[p].pc \notin {"idle", "done"}})

\* the two services work on up to two requests at a time
NextConc ==
  \/ \E t \in Threads, s \in Stores : Busy < 2 /\ Enter(t, s)
  \/ \E t \in Threads : AddPetTypeStep(t)
  \/ \E t \in Threads : DeletePetTypeStep(t)
  \/ \E t \in Threads : AddPetStep(t)
  \/ \E t \in Threads : DeletePetStep(t)
  \/ \E p \in Procs : Busy < 2 /\ StartPurchase(p, ConcPurchaseData)
  \/ \E p \in Procs : FindPetTypeId(p, {TRUE})
  \/ \E p \in Procs : GetPetsOfType(p, {TRUE})
  \/ \E p \in Procs : SendDelete(p, {TRUE})
  \/ \E p \in Procs : DeleteStep(p)
  \/ \E p \in Procs : GetNextPurchaseId(p)
  \/ \E p \in Procs : InsertTransaction(p)

SpecConc == InitConc /\ [][NextConc]_vars

(* ------------------------------ properties ----------------------------- *)
\* the pets of store s recorded under pet type id
PetsOf(s, id) == Filter(stores[s].pets, LAMBDA pet : pet.pet_type_id = id)

\* how often e occurs in list
Count(list, e) == Cardinality({i \in DOMAIN list : list[i] = e})

\* C1: within one store, no two pet records of the same pet type have names
\* that are equal when compared case-insensitively
C1_UniquePetNames ==
  \A s \in Stores : \A i, j \in DOMAIN stores[s].pets :
    LET a == stores[s].pets[i]
        b == stores[s].pets[j]
    IN (i # j /\ a.pet_type_id = b.pet_type_id) => Lower(a.name) # Lower(b.name)

\* C2: the list of pet names embedded in a pet type holds exactly the names
\* of the pet records of that type, each once and spelled as in the record
C2_NameListMirrorsPets ==
  \A s \in Stores : \A i \in DOMAIN stores[s].pet_types :
    LET ptype == stores[s].pet_types[i]
        names == Map(PetsOf(s, ptype.id), LAMBDA pet : pet.name)
    IN \A n \in Names : Count(ptype.pets, n) = Count(names, n)

\* C10: while the store works on no request, every image file is the
\* picture of exactly one pet record, and every picture of a pet record
\* other than "NA" is an image file
C10_ImagesMatchPictures ==
  \A s \in Stores :
    /\ \A file \in stores[s].images :
         Cardinality({i \in DOMAIN stores[s].pets : stores[s].pets[i].picture = file}) = 1
    /\ \A i \in DOMAIN stores[s].pets :
         stores[s].pets[i].picture # NA => stores[s].pets[i].picture \in stores[s].images

\* a PUT has replaced the picture of a pet: the second file downloaded is
\* the only one in the images directory
C10_Witness ==
  /\ ev.op = "update_pet" /\ ev.status = 200
  /\ stores[1].uuid = 2
  /\ Cardinality(stores[1].images) = 1

\* C3: every pet record references a pet type that exists in its store
C3_NoOrphanPets ==
  \A s \in Stores : \A i \in DOMAIN stores[s].pets :
    TypeIdx(stores[s], stores[s].pets[i].pet_type_id) # 0

\* the values a counter that stands at seq has returned: str(1) .. str(seq)
Issued(seq) == {ToString(n) : n \in 1..seq}

\* the handler threads of store s that hold a pet type id not yet inserted
Holding(s) ==
  {t \in Threads : /\ thr[t].f.pc = "insert_one"
                   /\ thr[t].f.h = "add_pet_type"
                   /\ thr[t].store = s}

\* the purchases that hold a purchase id not yet recorded
HoldingPurchase == {p \in Procs : req[p].pc = "insert_one"}

\* no two ids in use are equal, and each was returned by its counter
C4_IdsDistinct ==
  /\ \A s \in Stores :
       LET types == stores[s].pet_types IN
       /\ \A i, j \in DOMAIN types : i # j => types[i].id # types[j].id
       /\ \A i \in DOMAIN types : types[i].id \in Issued(stores[s].seq)
       /\ \A t \in Holding(s) :
            /\ thr[t].f.new_id \in Issued(stores[s].seq)
            /\ TypeIdx(stores[s], thr[t].f.new_id) = 0
            /\ \A u \in Holding(s) : u # t => thr[u].f.new_id # thr[t].f.new_id
  /\ \A i, j \in DOMAIN transactions :
       i # j => transactions[i].purchase_id # transactions[j].purchase_id
  /\ \A i \in DOMAIN transactions : transactions[i].purchase_id \in Issued(purchase_seq)
  /\ \A p \in HoldingPurchase :
       /\ req[p].purchase_id \in Issued(purchase_seq)
       /\ \A i \in DOMAIN transactions : transactions[i].purchase_id # req[p].purchase_id
       /\ \A q \in HoldingPurchase : q # p => req[q].purchase_id # req[p].purchase_id

\* a counter never goes down, and a call of a generator returns the number
\* after the one the counter stood at, which no earlier call returned
C4_Increasing ==
  /\ \A s \in Stores :
       /\ stores'[s].seq \in {stores[s].seq, stores[s].seq + 1}
       /\ \A t \in Threads :
            (/\ thr[t].f.pc = "get_next_pet_type_id"
             /\ thr[t].store = s
             /\ thr'[t].f.pc = "insert_one")
            => /\ stores'[s].seq = stores[s].seq + 1
               /\ thr'[t].f.new_id = ToString(stores'[s].seq)
               /\ thr'[t].f.new_id \notin Issued(stores[s].seq)
  /\ purchase_seq' \in {purchase_seq, purchase_seq + 1}
  /\ \A p \in Procs :
       (req[p].pc = "get_next_purchase_id" /\ req'[p].pc = "insert_one")
       => /\ purchase_seq' = purchase_seq + 1
          /\ req'[p].purchase_id = ToString(purchase_seq')
          /\ req'[p].purchase_id \notin Issued(purchase_seq)

\* C4: however the requests interleave, the ids a counter returns are
\* distinct and increasing: no two pet types of a store and no two
\* transactions share an id, and no id is returned a second time
C4_IdGeneration == [](C4_IdsDistinct) /\ [][C4_Increasing]_vars

\* two POST /pet-types requests of one store hold their new ids at the same
\* time, the counter having been incremented by both
C4_Witness ==
  \E s \in Stores : Cardinality(Holding(s)) = 2

\* the purchases that were answered 201
Answered == {p \in Procs : req[p].pc = "done" /\ req[p].status = 201}

\* the transaction that belongs to a 201 response with body b
RecordOf(b) ==
  [purchaser |-> b.purchaser, pet_type |-> b.pet_type,
   store |-> b.store, purchase_id |-> b.purchase_id]

\* C5: transactions holds exactly one record for each POST /purchases that
\* answered 201, with that response's purchaser, pet type, store and
\* purchase id, and none for a request that answered with an error or whose
\* deletion call did not answer 204
C5_TransactionsAreCompletedPurchases ==
  /\ Len(transactions) = Cardinality(Answered)
  /\ \A p \in Answered : Count(transactions, RecordOf(req[p].body)) = 1
  /\ \A i \in DOMAIN transactions :
       \E p \in Answered : transactions[i] = RecordOf(req[p].body)
  /\ ev.op = "create_purchase" =>
       IF ev.status = 201
         THEN \E k \in DOMAIN ev.calls :
                /\ ev.calls[k].to = "delete"
                /\ ev.calls[k].out = "204"
                /\ ev.calls[k].store = ev.body.store
                /\ ev.calls[k].arg[2] = ev.body.pet_name
         ELSE \A k \in DOMAIN ev.calls : ev.calls[k].to # "insert_one"

\* one purchase was answered 201 and recorded, the other one was refused
\* after the store refused its deletion call
C5_Witness ==
  /\ Len(transactions) = 1
  /\ Cardinality(Answered) = 1
  /\ ev.op = "create_purchase" /\ ev.status = 400
  /\ \E k \in DOMAIN ev.calls : ev.calls[k].to = "delete" /\ ev.calls[k].out = "404"

\* C6: GET /transactions answers 401 with the same body, whatever the
\* transactions are, to every OwnerPC header other than the owner's token
\* (none included), and answers the records only to the token itself
C6_OwnerAuthenticated ==
  /\ \A h \in Headers :
       LET r == get_transactions(h, transactions) IN
       IF h = OWNER_PASSWORD THEN r.status = 200 /\ r.body = transactions
       ELSE r.status = 401 /\ r.body = Err("unauthorized")
  /\ ev.op = "get_transactions" =>
       IF ev.arg = OWNER_PASSWORD THEN ev.status = 200 /\ ev.body = transactions
       ELSE ev.status = 401 /\ ev.body = Err("unauthorized")

\* a request with the token in another letter case was refused while a
\* transaction was on record
C6_Witness ==
  /\ ev.op = "get_transactions"
  /\ ev.arg = "lovespetsl2m3n4"
  /\ ev.status = 401
  /\ transactions # <<>>

\* two entries of a log are attempts of the same call
SameCall(a, b) == a.to = b.to /\ a.store = b.store /\ a.arg = b.arg

\* the outcomes of a call that failed
Failures == {"SSLError", "exception", "non200", "0", NONE}

\* no call occurs twice in log
NoCallTwice(log) ==
  \A i, j \in DOMAIN log : i < j => ~SameCall(log[i], log[j])

Rank(c) ==
  CASE c.to \in {"pet-types", "pets"} -> 1
    [] c.to = "delete" -> 2
    [] c.to = "purchase_id" -> 3
    [] c.to = "insert_one" -> 4

\* log is the log of a POST /purchases request with body data, made in the
\* order of create_purchase
InOrder(log, data) ==
  /\ \A i, j \in DOMAIN log :
       i < j => /\ Rank(log[i]) <= Rank(log[j])
                /\ Rank(log[i]) = Rank(log[j]) => Rank(log[i]) = 1
                /\ Rank(log[j]) = 1 => log[i].store <= log[j].store
  /\ \A i \in DOMAIN log :
       /\ Rank(log[i]) = 1 =>
            IF "store" \in DOMAIN data THEN log[i].store = data.store
            ELSE log[i].store = 2 => log[1].store = 1
       /\ log[i].to = "pet-types" => (i > 1 => log[i - 1].store < log[i].store)
       /\ log[i].to = "pets" =>
            /\ i > 1
            /\ log[i - 1].to = "pet-types"
            /\ log[i - 1].store = log[i].store
            /\ log[i - 1].out = "200"
       /\ log[i].to = "delete" =>
            \E k \in 1..(i - 1) :
              /\ log[k].to = "pets"
              /\ log[k].out = "200"
              /\ log[k].store = log[i].store
              /\ log[k].arg[1] = log[i].arg[1]
              /\ \E n \in DOMAIN log[k].got : log[k].got[n] = log[i].arg[2]
       /\ log[i].to = "purchase_id" =>
            i > 1 /\ log[i - 1].to = "delete" /\ log[i - 1].out = "204"
       /\ log[i].to = "insert_one" =>
            i > 1 /\ log[i - 1].to = "purchase_id" /\ log[i - 1].out = log[i].out

\* C8: a POST /purchases request asks the stores one after the other (store
\* 1 before store 2, or the named store only), then makes at most one
\* deletion call, for a pet a lookup returned and at the store that
\* returned it, and draws a purchase id and records the transaction only
\* after that call was answered 204
C8_PurchaseOrder ==
  /\ \A p \in Procs : req[p].pc \notin {"idle", "done"} =>
       /\ InOrder(req[p].log, req[p].data)
       /\ req[p].pc \in {"get_next_purchase_id", "insert_one"} =>
            \E k \in DOMAIN req[p].log :
              req[p].log[k] = Call("delete", req[p].result[1],
                                   <<req[p].result[2], req[p].result[3]>>, "204")
  /\ ev.op = "create_purchase" =>
       /\ InOrder(ev.calls, ev.arg)
       /\ ev.status = 201 <=> \E k \in DOMAIN ev.calls : ev.calls[k].to = "insert_one"

\* a purchase that named no store asked both stores, deleted a pet and was
\* recorded
C8_Witness ==
  /\ ev.op = "create_purchase" /\ ev.status = 201
  /\ Len(ev.calls) = 7
  /\ ev.calls[5].to = "delete"

\* what every GET request answers in the current state: it changes nothing,
\* the same request answers the same again, and it answers 404 when the pet
\* type or the pet it names does not exist, 200 otherwise
C9_Responses ==
  \A s \in Stores : \A f \in ReadRequests :
    LET r == Run(stores[s], f) IN
    /\ r.st = stores[s]
    /\ Run(r.st, f).f = r.f
    /\ f.h \in {"get_pet_type_by_id", "get_pets"} =>
         r.f.status = (IF TypeIdx(stores[s], f.id) = 0 THEN 404 ELSE 200)
    /\ f.h = "get_pet_by_name" =>
         r.f.status = (IF TypeIdx(stores[s], f.id) = 0 \/ PetIdx(stores[s], f.id, f.name) = 0
                         THEN 404 ELSE 200)

\* a step in which a GET request is answered changes no collection, no
\* counter and no image file
C9_Frame ==
  ev'.op \in {"GET", "get_transactions"} =>
    UNCHANGED <<stores, transactions, purchase_seq, req, thr, writes>>

\* C9: the GET routes of both services leave pet types, pets, transactions,
\* counters and image files unchanged, two identical GET requests with no
\* write between them answer the same, and a GET for a pet type id or a pet
\* name that does not exist answers 404
C9_GetIsIdempotent == [](C9_Responses) /\ [][C9_Frame]_vars

\* a GET was answered 404 by a store that holds pets, one of which has a
\* picture
C9_Witness ==
  /\ ev.op = "GET" /\ ev.status = 404
  /\ \E s \in Stores : stores[s].pets # <<>> /\ stores[s].images # {}

\* a call after which a store, the transactions or the counter differ
Changing(c) ==
  \/ c.to \in {"purchase_id", "insert_one"}
  \/ c.to = "delete" /\ c.out = "204"

\* a POST /purchases answered 400 or 415 made no call that changes anything,
\* and made no call at all when its body failed a check of the validation
C11_ErrorAnswers ==
  ev.op = "create_purchase" =>
    /\ ev.status \in {400, 415} => \A k \in DOMAIN ev.calls : ~Changing(ev.calls[k])
    /\ (ev.status = 415 \/ ValidatePurchase(JSON, ev.arg) = 400) =>
         ev.calls = <<>> /\ ev.status \in {400, 415}

\* the log of client p's request after a step
LogAfter(p) == IF req'[p].pc = "done" THEN ev'.calls ELSE req'[p].log

\* a step of a purchase other than a changing call leaves the pets of both
\* stores, the transactions and the purchase_id counter as they are
C11_Steps ==
  \A p \in Procs :
    (/\ req'[p] # req[p]
     /\ LogAfter(p) = <<>> \/ ~Changing(LogAfter(p)[Len(LogAfter(p))]))
    => UNCHANGED <<stores, transactions, purchase_seq>>

AddedNames ==
  {f.data.name : f \in {g \in ConcRequests : g.h = "add_pet" /\ "name" \in DOMAIN g.data}}

\* the purchases answered 201 for the pet called n of store s
SoldTo(s, n) ==
  {p \in Answered : req[p].body.store = s /\ req[p].body.pet_name = n}

\* C12: a pet is sold at most once: of a pet that is in a store from the
\* start and that no client adds again, at most one purchase is answered
\* 201, however the purchases and the steps of the store's DELETE interleave
C12_SoldAtMostOnce ==
  \A s \in Stores : \A n \in Names \ AddedNames : Cardinality(SoldTo(s, n)) <= 1

====
